---- MODULE Spec2Model ----
(***************************************************************************)
(* Model of orbital_simulator/orbit_simulator.py: the satellite simulation *)
(* threads, the module start-up, stop_async and the telescope query.       *)
(*                                                                         *)
(* Numbers.  The program computes in floating point; the model computes    *)
(* the same formulas over integers:                                        *)
(*   - dimensioned quantities are integers in units of length, time and    *)
(*     mass in which G, M_EARTH and R_EARTH are the small integers below;  *)
(*     "/" is Div, "0.5 * x" is Div(x, 2), np.sqrt is ISqrt;               *)
(*   - angles are counted in quarter turns, so np.pi is PI = 2 and         *)
(*     cos / sin are exact on every angle the model reaches; th_current,   *)
(*     which the program reads through np.cos and np.sin only, is kept     *)
(*     modulo a full turn;                                                 *)
(*   - epsilon, the one dimensionless fraction, is kept in units of        *)
(*     1 / EPS_ONE;                                                        *)
(*   - the offset 11e3 m of line 178, smaller than the length unit, is the *)
(*     least positive length.                                              *)
(* Python's None is the empty tuple, a float v is <<v>>.                   *)
(***************************************************************************)
EXTENDS Integers, Sequences, FiniteSets, TLC

(***************************************************************************)
(* Bounds of the model.                                                    *)
(***************************************************************************)
\* the clock t of the run loop, which run() only prints, is followed up to
\* MaxT and stays there
MaxT == 5
\* calls of stop_async made on one satellite
MaxStopCalls == 2

(***************************************************************************)
(* Constants of the program.                                               *)
(***************************************************************************)
\* the size of the fleet, range(5000) of line 240, scaled down
NumSatellites == 2
\* the number of telescopes, range(20) of line 253, scaled down
NumTelescopes == 2
G == 1
M_EARTH == 1152
R_EARTH == 9
\* 11e3 of line 178
DEORBIT_OFFSET == 1
\* the time step handed to run_async by the start-up loop
DT == 5
\* the visibility threshold of Telescope.read, in degrees
READ_THRESHOLD == 20
PI == 2
EPS_ONE == 2
\* the inf of np.float64, above every finite length of the model
Inf == 1048576

None == <<>>
Some(v) == <<v>>
IsNone(o) == o = <<>>
Val(o) == o[1]

(***************************************************************************)
(* Arithmetic.                                                             *)
(***************************************************************************)
Abs(a) == IF a < 0 THEN -a ELSE a
Sign(a) == IF a < 0 THEN -1 ELSE IF a > 0 THEN 1 ELSE 0

\* a / b for a non-zero b of either sign
Div(a, b) == IF b < 0 THEN (-a) \div (-b) ELSE a \div b

\* bisection for the root between lo and hi; the midpoint is bound as a
\* value, so that every level of the search computes it once
RECURSIVE SqrtSearch(_, _, _)
SqrtSearch(n, lo, hi) ==
    IF lo >= hi THEN lo
    ELSE CHOOSE root \in { IF mid * mid <= n THEN SqrtSearch(n, mid, hi)
                                              ELSE SqrtSearch(n, lo, mid - 1) :
                            mid \in {(lo + hi + 1) \div 2} } : TRUE

\* np.sqrt: the integer part of the square root; exact on squares, and
\* ISqrt(n) < k exactly when the real root is below the integer k
ISqrt(n) == SqrtSearch(n, 0, IF n < 46340 THEN n ELSE 46340)

\* np.cos and np.sin of an angle counted in quarter turns
Cos(th) == <<1, 0, -1, 0>>[(th % 4) + 1]
Sin(th) == <<0, 1, 0, -1>>[(th % 4) + 1]

\* np.arctan(n / d), to the nearest quarter turn
Arctan(n, d) == IF Abs(n) >= Abs(d) /\ n # 0 THEN Sign(n) * Sign(d) ELSE 0

\* a.dot(b) for 3x3 matrices, and m.dot(v) for a vector
MatMul(a, b) ==
    [i \in 1..3 |-> [j \in 1..3 |->
        a[i][1] * b[1][j] + a[i][2] * b[2][j] + a[i][3] * b[3][j]]]
MatVec(m, v) ==
    [i \in 1..3 |-> m[i][1] * v[1] + m[i][2] * v[2] + m[i][3] * v[3]]

(***************************************************************************)
(* SatelliteSimulation.                                                    *)
(***************************************************************************)
\* the matrices of lines 96-119 for the three sampled angles
RotationMatrix(th_x, th_y, th_z) ==
    LET rotate_around_x == << <<1, 0, 0>>,
                              <<0, Cos(th_x), -Sin(th_x)>>,
                              <<0, Sin(th_x), Cos(th_x)>> >>
        rotate_around_y == << <<Cos(th_y), 0, -Sin(th_y)>>,
                              <<0, 1, 0>>,
                              <<Sin(th_y), 0, Cos(th_y)>> >>
        rotate_around_z == << <<Cos(th_z), Sin(th_z), 0>>,
                              <<-Sin(th_z), Cos(th_z), 0>>,
                              <<0, 0, 1>> >>
    IN  MatMul(rotate_around_x, MatMul(rotate_around_y, rotate_around_z))

\* a radius computed without the eccentricity
RadiusWithoutEpsilon(alpha, epsilon, th) ==
    IF EPS_ONE + EPS_ONE * Cos(th) = 0 THEN Inf
    ELSE Div(alpha * EPS_ONE, EPS_ONE + EPS_ONE * Cos(th))

\* alpha / (1 + epsilon * cos(th)), lines 90 and 134; the operands are
\* np.float64, so a zero denominator gives inf (and a warning)
Radius(alpha, epsilon, th) ==
    IF EPS_ONE + epsilon * Cos(th) = 0 THEN Inf
    ELSE Div(alpha * EPS_ONE, EPS_ONE + epsilon * Cos(th))

\* __init__: the object a constructor call leaves behind.  No argument is
\* rejected: the only test, epsilon > 1, prints a warning.
SatelliteSimulation(id, object_mass, r_min, w_max, th_0, orient) ==
    LET angular_momentum == object_mass * w_max * r_min * r_min
        k == G * M_EARTH * object_mass
        total_energy ==
            Div(object_mass * r_min * r_min * w_max * w_max, 2) - Div(k, r_min)
        alpha == Div(angular_momentum * angular_momentum, object_mass * k)
        epsilon ==
            ISqrt(EPS_ONE * EPS_ONE
                  + Div(EPS_ONE * EPS_ONE * 2 * total_energy
                          * angular_momentum * angular_momentum,
                        object_mass * k * k))
    IN  [ id               |-> id,
          mass             |-> object_mass,
          angular_momentum |-> angular_momentum,
          total_energy     |-> total_energy,
          alpha            |-> alpha,
          epsilon          |-> epsilon,
          th_current       |-> th_0,
          r_current        |-> Radius(alpha, epsilon, th_0),
          rotation_matrix  |-> RotationMatrix(orient[1], orient[2], orient[3]),
          _running         |-> FALSE,
          height           |-> None,
          latitude         |-> None,
          longitude        |-> None,
          _thread          |-> None ]

\* step(dt); a finite number divided by inf is 0
Step(sat, dt) ==
    LET th == ( sat.th_current
                + IF sat.r_current = Inf THEN 0
                  ELSE Div(sat.angular_momentum * dt,
                           sat.mass * sat.r_current * sat.r_current) ) % (2 * PI)
    IN  [sat EXCEPT !.th_current = th,
                    !.r_current = Radius(sat.alpha, sat.epsilon, th)]

\* lines 148-169: the locals h, latitude and longitude of one loop iteration,
\* computed from the position step() has just left in the object
Project(sat) ==
    LET position == << sat.r_current * Cos(sat.th_current),
                       sat.r_current * Sin(sat.th_current),
                       0 >>
        xyz == MatVec(sat.rotation_matrix, position)
        x == xyz[1]
        y == xyz[2]
        z == xyz[3]
        h == ISqrt(position[1] * position[1] + position[2] * position[2]
                   + position[3] * position[3]) - R_EARTH
        r_xy == ISqrt(x * x + y * y)
        latitude == IF r_xy = 0 THEN Div(Sign(z) * PI, 2) ELSE Arctan(z, r_xy)
        longitude == IF x = 0 THEN Div(Sign(y) * PI, 2) ELSE Arctan(y, x)
    IN  [h |-> h, latitude |-> latitude, longitude |-> longitude]

\* radians to degrees, lines 172-173
Degrees(a) == Div(a * 180, PI)

\* the value line 178 stores when the de-orbit event fires
DeorbitHeight == R_EARTH + DEORBIT_OFFSET

\* the test of line 181
IsDead(height) == height < R_EARTH

\* Thread.start() returns None, and that is what run_async keeps in _thread
ThreadStart == None

\* run_async: the object after the call (the new thread is in threads)
RunAsync(sat) == [sat EXCEPT !._thread = ThreadStart]

\* get_current: the reading built from the three fields, or the exception
\* raised on the way (None - R_EARTH is a TypeError, a None coordinate is
\* refused by the Coordinate model)
SatelliteReading(id, latitude, longitude, altitude) ==
    [id |-> id, coordinate |-> [latitude |-> latitude, longitude |-> longitude],
     altitude |-> altitude]

GetCurrent(sat) ==
    IF IsNone(sat.height) THEN [error |-> "TypeError"]
    ELSE IF IsNone(sat.latitude) \/ IsNone(sat.longitude)
         THEN [error |-> "ValidationError"]
    ELSE SatelliteReading(sat.id, Val(sat.latitude), Val(sat.longitude),
                          Val(sat.height) - R_EARTH)

IsReading(r) == "id" \in DOMAIN r

(***************************************************************************)
(* Coordinate and Telescope.                                               *)
(***************************************************************************)
\* Coordinate.__sub__
CoordinateSub(self, other) ==
    ISqrt((self.latitude - other.latitude) * (self.latitude - other.latitude)
          + (self.longitude - other.longitude) * (self.longitude - other.longitude))

\* Telescope.from_coord
Telescope(id, latitude, longitude) ==
    [id |-> id, coordinate |-> [latitude |-> latitude, longitude |-> longitude]]

\* a visibility test that lets the threshold itself through
ReadResultInclusive(telescope, reading) ==
    LET diff == CoordinateSub(telescope.coordinate, reading.coordinate)
    IN  IF diff <= READ_THRESHOLD THEN Some(reading) ELSE None

\* lines 227-229 of Telescope.read, on the reading get_current returned:
\* the reading, or None when the function falls off its end
ReadResult(telescope, reading) ==
    LET diff == CoordinateSub(telescope.coordinate, reading.coordinate)
    IN  IF diff < READ_THRESHOLD THEN Some(reading) ELSE None

\* Telescope.read: an exception of get_current passes through
TelescopeRead(telescope, sat) ==
    LET reading == GetCurrent(sat)
    IN  IF IsReading(reading) THEN ReadResult(telescope, reading) ELSE reading

(***************************************************************************)
(* State.                                                                  *)
(*   satellites   the module-level list of SatelliteSimulation objects     *)
(*   threads      per satellite, the thread run_async started: where it is *)
(*                in run(), run's local clock t and what the random choice *)
(*                of line 177 gave in the iteration just ended             *)
(*   telescopes   the module-level list of telescopes                      *)
(*   query        the request get_telescope_readings is serving: its       *)
(*                locals and, once it has ended, its response              *)
(*   stop         the stop_async call in progress                          *)
(*   stopped      per satellite, how its stop_async calls ended            *)
(*   call         a direct call of a method: its arguments and what it     *)
(*                returned                                                 *)
(***************************************************************************)
VARIABLES satellites, threads, telescopes, query, stop, stopped, call

vars == <<satellites, threads, telescopes, query, stop, stopped, call>>

\* what the start-up loop draws for a satellite (lines 241-244) and what
\* __init__ draws for its orientation (lines 93-95)
Masses == {-1, 1}
RMins == {12, 24}
WMaxs == {1}
Th0s == {3}
Orientations == {<<0, 0, 0>>}
\* what line 252 draws for a telescope
TelescopeLatitudes == {0}
TelescopeLongitudes == {16}
\* the indices a request may carry
TelescopeIdxs == (0 - NumTelescopes - 1) .. NumTelescopes

IdleQuery ==
    [pc |-> "idle", telescope_idx |-> 0, telescope |-> None, k |-> 0,
     readings |-> <<>>, n_alive |-> 0, altitude |-> None, result |-> None]

Init ==
    /\ satellites = <<>>
    /\ threads = <<>>
    /\ telescopes = <<>>
    /\ query = IdleQuery
    /\ stop = [pc |-> "idle", sat |-> 0]
    /\ stopped = <<>>
    /\ call = None

Sats == 1 .. Len(satellites)

(***************************************************************************)
(* Module start-up, lines 238-254.                                         *)
(***************************************************************************)
\* one iteration of the loop of lines 240-247
CreateSatellite ==
    /\ Len(satellites) < NumSatellites
    /\ \E m \in Masses, r \in RMins, w \in WMaxs, th_0 \in Th0s, o \in Orientations :
         LET orbit == SatelliteSimulation(Len(satellites) + 1, m, r, w, th_0, o)
         IN  /\ satellites' = Append(satellites, RunAsync(orbit))
             /\ threads' = Append(threads, [pc |-> "begin", t |-> 0, fire |-> FALSE])
             /\ stopped' = Append(stopped, <<>>)
    /\ UNCHANGED <<telescopes, query, stop, call>>

\* lines 251-254
PlaceTelescopes ==
    /\ Len(satellites) = NumSatellites
    /\ telescopes = <<>>
    /\ \E lat \in [1..NumTelescopes -> TelescopeLatitudes],
          lon \in [1..NumTelescopes -> TelescopeLongitudes] :
         telescopes' = [i \in 1..NumTelescopes |-> Telescope(i, lat[i], lon[i])]
    /\ UNCHANGED <<satellites, threads, query, stop, stopped, call>>

Serving == telescopes # <<>>

(***************************************************************************)
(* SatelliteSimulation.run.  An action ends at an access to the shared     *)
(* object that another thread can tell apart:                              *)
(*   - step() and the locals of lines 147-169 touch th_current and         *)
(*     r_current only, which no other thread reads or writes, so they run  *)
(*     with the store of line 171;                                         *)
(*   - the stores of lines 172 and 173 run together;                       *)
(*   - the store of line 183 can only repeat what stop_async stores and    *)
(*     nothing else reads _running, so lines 177-186 run together.         *)
(***************************************************************************)
\* lines 138-144
RunBegin ==
    /\ \E i \in Sats :
         /\ threads[i].pc = "begin"
         /\ satellites' = [satellites EXCEPT ![i]._running = TRUE]
         /\ threads' = [threads EXCEPT ![i] =
                          [pc |-> IF satellites[i].epsilon > EPS_ONE
                                  THEN "returned" ELSE "loop",
                           t |-> 0, fire |-> FALSE]]
    /\ UNCHANGED <<telescopes, query, stop, stopped, call>>

\* line 145 when _running is False: the loop, and with it run(), ends
LoopExit ==
    /\ \E i \in Sats :
         /\ threads[i].pc = "loop"
         /\ ~satellites[i]._running
         /\ threads' = [threads EXCEPT ![i].pc = "exited"]
    /\ UNCHANGED <<satellites, telescopes, query, stop, stopped, call>>

\* line 145 when _running is True, then lines 147-171
LoopStep ==
    /\ \E i \in Sats :
         /\ threads[i].pc = "loop"
         /\ satellites[i]._running
         /\ LET sat == Step(satellites[i], 5 * DT)
            IN  satellites' = [satellites EXCEPT
                                 ![i] = [sat EXCEPT !.height = Some(Project(sat).h)]]
         /\ threads' = [threads EXCEPT ![i].pc = "coordinates", ![i].fire = FALSE]
    /\ UNCHANGED <<telescopes, query, stop, stopped, call>>

\* lines 172-173
WriteCoordinates ==
    /\ \E i \in Sats :
         /\ threads[i].pc = "coordinates"
         /\ LET p == Project(satellites[i])
            IN  satellites' = [satellites EXCEPT
                                 ![i].latitude = Some(Degrees(p.latitude)),
                                 ![i].longitude = Some(Degrees(p.longitude))]
         /\ threads' = [threads EXCEPT ![i].pc = "deorbit"]
    /\ UNCHANGED <<telescopes, query, stop, stopped, call>>

\* lines 177-178 on the object: the store when the random choice is True
Clamp(sat, fire) == IF fire THEN [sat EXCEPT !.height = Some(DeorbitHeight)] ELSE sat

\* a death check that leaves the flag alone
CheckDeadKeepsRunning(sat) == sat

\* lines 181-183 on the object
CheckDead(sat) ==
    IF IsDead(Val(sat.height)) THEN [sat EXCEPT !._running = FALSE] ELSE sat

\* t += dt of line 185
Tick(t) == IF t + DT < MaxT THEN t + DT ELSE MaxT

\* a death check made before the de-orbit event
DeorbitAfterCheck ==
    /\ \E i \in Sats :
         /\ threads[i].pc = "deorbit"
         /\ \E fire \in BOOLEAN :
              /\ satellites' = [satellites EXCEPT ![i] = Clamp(CheckDead(@), fire)]
              /\ threads' = [threads EXCEPT
                               ![i] = [pc |-> "loop", t |-> Tick(@.t), fire |-> fire]]
    /\ UNCHANGED <<telescopes, query, stop, stopped, call>>

\* lines 177-186: the de-orbit event, the death check, the clock, the sleep
DeorbitAndCheck ==
    /\ \E i \in Sats :
         /\ threads[i].pc = "deorbit"
         /\ \E fire \in BOOLEAN :
              /\ satellites' = [satellites EXCEPT ![i] = CheckDead(Clamp(@, fire))]
              /\ threads' = [threads EXCEPT
                               ![i] = [pc |-> "loop", t |-> Tick(@.t), fire |-> fire]]
    /\ UNCHANGED <<telescopes, query, stop, stopped, call>>

\* the thread of satellite i has left run()
Finished(i) == threads[i].pc \in {"returned", "exited"}

(***************************************************************************)
(* stop_async, called by some other thread on a started satellite.         *)
(***************************************************************************)
\* line 193
StopRequest ==
    /\ stop.pc = "idle"
    /\ \E i \in Sats :
         /\ Len(stopped[i]) < MaxStopCalls
         /\ satellites' = [satellites EXCEPT ![i]._running = FALSE]
         /\ stop' = [pc |-> "join", sat |-> i]
    /\ UNCHANGED <<threads, telescopes, query, stopped, call>>

\* line 194: None has no join; a thread's join returns once run() has ended
StopJoin ==
    /\ stop.pc = "join"
    /\ LET i == stop.sat
       IN  /\ IsNone(satellites[i]._thread) \/ Finished(i)
           /\ stopped' = [stopped EXCEPT ![i] =
                            Append(@, IF IsNone(satellites[i]._thread)
                                      THEN "AttributeError" ELSE "returned")]
    /\ stop' = [pc |-> "idle", sat |-> 0]
    /\ UNCHANGED <<satellites, threads, telescopes, query, call>>

(***************************************************************************)
(* get_telescope_readings, lines 261-278.  The handler has no await, so    *)
(* the event loop serves one request at a time; the satellite threads run  *)
(* between its steps.                                                      *)
(***************************************************************************)
\* list[idx] of Python: a negative index counts from the end
ListGet(list, idx) ==
    IF 0 <= idx /\ idx < Len(list) THEN Some(list[idx + 1])
    ELSE IF idx < 0 /\ 0 - idx <= Len(list) THEN Some(list[Len(list) + idx + 1])
    ELSE None

\* the test of line 268.  Its two reads of sat.height are taken as one: the
\* height is never None or 0 again once it has been neither, so the outcome
\* is that of the second read.
CountsAlive(sat) ==
    /\ ~IsNone(sat.height)
    /\ Val(sat.height) # 0
    /\ Val(sat.height) >= R_EARTH

\* line 276: the response of a request that reached the end of the loop
TelescopeResults(telescope, readings) ==
    [telescope |-> telescope, satellites |-> readings]

Raise(q, exception) ==
    [q EXCEPT !.pc = "done", !.result = [error |-> exception]]

\* lines 263-266
QueryStart ==
    /\ Serving
    /\ query.pc \in {"idle", "done"}
    /\ \E telescope_idx \in TelescopeIdxs :
         LET telescope == ListGet(telescopes, telescope_idx)
             q == [IdleQuery EXCEPT !.telescope_idx = telescope_idx]
         IN  query' = IF IsNone(telescope)
                      THEN Raise(q, "IndexError")
                      ELSE [q EXCEPT !.pc = "check", !.telescope = telescope, !.k = 1]
    /\ UNCHANGED <<satellites, threads, telescopes, stop, stopped, call>>

\* lines 267-271 for the next satellite of the list, or lines 275-278 when
\* the list is exhausted
QueryCheck ==
    /\ query.pc = "check"
    /\ query' =
         IF query.k > Len(satellites)
         THEN [query EXCEPT !.pc = "done",
                            !.result = TelescopeResults(Val(query.telescope),
                                                        query.readings)]
         ELSE IF CountsAlive(satellites[query.k])
         THEN [query EXCEPT !.pc = "height", !.n_alive = @ + 1]
         ELSE [query EXCEPT !.k = @ + 1]
    /\ UNCHANGED <<satellites, threads, telescopes, stop, stopped, call>>

\* a get_current that keeps the altitude it computes in the satellite
QueryReadHeightStoring ==
    /\ query.pc = "height"
    /\ LET sat == satellites[query.k]
       IN  /\ query' = IF IsNone(sat.height)
                       THEN Raise(query, "TypeError")
                       ELSE [query EXCEPT !.pc = "coordinates",
                                          !.altitude = Some(Val(sat.height) - R_EARTH)]
           /\ satellites' = IF IsNone(sat.height) THEN satellites
                            ELSE [satellites EXCEPT
                                    ![query.k].height = Some(Val(sat.height) - R_EARTH)]
    /\ UNCHANGED <<threads, telescopes, stop, stopped, call>>

\* line 199, reached through Telescope.read: self.height - R_EARTH
QueryReadHeight ==
    /\ query.pc = "height"
    /\ LET sat == satellites[query.k]
       IN  query' = IF IsNone(sat.height)
                    THEN Raise(query, "TypeError")
                    ELSE [query EXCEPT !.pc = "coordinates",
                                       !.altitude = Some(Val(sat.height) - R_EARTH)]
    /\ UNCHANGED <<satellites, threads, telescopes, stop, stopped, call>>

\* a collection that puts the newest reading first
CollectFirst(readings, sat_position) ==
    IF IsNone(sat_position) THEN readings ELSE <<Val(sat_position)>> \o readings

\* lines 273-274
Collect(readings, sat_position) ==
    IF IsNone(sat_position) THEN readings ELSE Append(readings, Val(sat_position))

\* lines 201-202, the two constructors of lines 197-204, lines 227-229 and
\* lines 273-274
QueryReadCoordinates ==
    /\ query.pc = "coordinates"
    /\ LET sat == satellites[query.k]
       IN  query' =
             IF IsNone(sat.latitude) \/ IsNone(sat.longitude)
             THEN Raise(query, "ValidationError")
             ELSE LET reading == SatelliteReading(sat.id, Val(sat.latitude),
                                                  Val(sat.longitude), Val(query.altitude))
                      sat_position == ReadResult(Val(query.telescope), reading)
                  IN  [query EXCEPT
                         !.pc = "check", !.k = @ + 1, !.altitude = None,
                         !.readings = Collect(@, sat_position)]
    /\ UNCHANGED <<satellites, threads, telescopes, stop, stopped, call>>

(***************************************************************************)
(* Specifications.                                                         *)
(***************************************************************************)
Next ==
    \/ CreateSatellite \/ PlaceTelescopes
    \/ RunBegin \/ LoopExit \/ LoopStep \/ WriteCoordinates \/ DeorbitAndCheck
    \/ StopRequest \/ StopJoin
    \/ QueryStart \/ QueryCheck \/ QueryReadHeight \/ QueryReadCoordinates
Spec == Init /\ [][Next]_vars

\* the satellites and the callers of stop_async, no request served
NextLife ==
    \/ CreateSatellite
    \/ RunBegin \/ LoopExit \/ LoopStep \/ WriteCoordinates \/ DeorbitAndCheck
    \/ StopRequest \/ StopJoin
SpecLife == Init /\ [][NextLife]_vars

\* the satellites and the requests, stop_async never called
NextQuery ==
    \/ CreateSatellite \/ PlaceTelescopes
    \/ RunBegin \/ LoopExit \/ LoopStep \/ WriteCoordinates \/ DeorbitAndCheck
    \/ QueryStart \/ QueryCheck \/ QueryReadHeight \/ QueryReadCoordinates
SpecQuery == Init /\ [][NextQuery]_vars

\* a step of the thread run_async started
Run == RunBegin \/ LoopExit \/ LoopStep \/ WriteCoordinates \/ DeorbitAndCheck

\* the first iteration of the loop of lines 240-247
CreateFirstSatellite == satellites = <<>> /\ CreateSatellite

\* the first satellite of the fleet and the callers of its stop_async, when
\* the scheduler lets the started thread run and the caller go on to its join
NextFirst ==
    \/ CreateFirstSatellite
    \/ RunBegin \/ LoopExit \/ LoopStep \/ WriteCoordinates \/ DeorbitAndCheck
    \/ StopRequest \/ StopJoin
SpecFirstFair ==
    /\ Init
    /\ [][NextFirst]_vars
    /\ WF_vars(Run)
    /\ WF_vars(StopJoin)

(***************************************************************************)
(* Telescope.read called directly, on the arguments drawn below.           *)
(***************************************************************************)
\* the fields of the satellite the call reads
ReadHeights == {None, Some(3), Some(27)}
ReadLatitudes == {-90, 0, 90}
ReadLongitudes == {-90, 0, 90}
\* the place of the telescope
ReadTelescopeLatitudes == {0, 12}
ReadTelescopeLongitudes == {15, 16, 17}

InitRead ==
    /\ satellites = <<>>
    /\ threads = <<>>
    /\ telescopes = <<>>
    /\ query = IdleQuery
    /\ stop = [pc |-> "idle", sat |-> 0]
    /\ stopped = <<>>
    /\ \E h \in ReadHeights, lat \in ReadLatitudes, lon \in ReadLongitudes,
          tlat \in ReadTelescopeLatitudes, tlon \in ReadTelescopeLongitudes :
         call = [method    |-> "read",
                 self      |-> Telescope(1, tlat, tlon),
                 satellite |-> [SatelliteSimulation(1, 1, 12, 1, 3, <<0, 0, 0>>)
                                  EXCEPT !.height = h, !.latitude = Some(lat),
                                         !.longitude = Some(lon)],
                 done      |-> FALSE,
                 returned  |-> None]

CallRead ==
    /\ ~IsNone(call)
    /\ call.method = "read"
    /\ ~call.done
    /\ call' = [call EXCEPT !.done = TRUE,
                            !.returned = TelescopeRead(call.self, call.satellite)]
    /\ UNCHANGED <<satellites, threads, telescopes, query, stop, stopped>>

SpecRead == InitRead /\ [][CallRead]_vars

(***************************************************************************)
(* step called directly and repeatedly on a freshly built satellite.       *)
(***************************************************************************)
\* the calls of step made on one satellite
MaxStepCalls == 3

\* r_min and w_max of an ellipse (epsilon 1/2), a parabola (epsilon 1) and a
\* circle (epsilon 0)
StepOrbits == {<<12, 1>>, <<4, 6>>, <<2, 12>>}
StepMasses == {-2, -1, 1, 2}
StepTh0s == 0 .. 3
\* the time steps handed to step; run hands it 5 * dt
StepDts == {1, 5 * DT}

InitStep ==
    /\ satellites = <<>>
    /\ threads = <<>>
    /\ telescopes = <<>>
    /\ query = IdleQuery
    /\ stop = [pc |-> "idle", sat |-> 0]
    /\ stopped = <<>>
    /\ \E m \in StepMasses, o \in StepOrbits, th_0 \in StepTh0s :
         call = [method |-> "step",
                 self   |-> SatelliteSimulation(1, m, o[1], o[2], th_0, <<0, 0, 0>>),
                 calls  |-> 0]

CallStep ==
    /\ ~IsNone(call)
    /\ call.method = "step"
    /\ call.calls < MaxStepCalls
    /\ \E dt \in StepDts :
         call' = [call EXCEPT !.self = Step(@, dt), !.calls = @ + 1]
    /\ UNCHANGED <<satellites, threads, telescopes, query, stop, stopped>>

SpecStep == InitStep /\ [][CallStep]_vars

(***************************************************************************)
(* Properties.                                                             *)
(***************************************************************************)
\* C1: every stop_async call that has ended returned normally, and the run
\* loop of its satellite had exited by then (and so stays exited).
StopJoinsTheLoop ==
    \A i \in Sats : \A n \in DOMAIN stopped[i] :
        stopped[i][n] = "returned" /\ Finished(i)

\* C2: no stop_async call raises, the first, the second or one made after
\* the satellite died.
StopNeverRaises ==
    \A i \in Sats : \A n \in DOMAIN stopped[i] : stopped[i][n] # "AttributeError"

\* C3: the running flag of a satellite with epsilon > 1 is never true.
EscapeNeverRunning ==
    \A i \in Sats : satellites[i].epsilon > EPS_ONE => ~satellites[i]._running

\* C4: a request whose index is outside 0 .. N-1 never ends with the
\* results of a telescope.
OutOfRangeIsLookupError ==
    (query.pc = "done" /\ query.telescope_idx \notin 0 .. (NumTelescopes - 1))
        => "telescope" \notin DOMAIN query.result

\* C5: every reading a request for one of the telescopes has collected was
\* built from a stored height that was not below the death threshold when
\* get_current read it (the altitude of a reading is that height less
\* R_EARTH).
ReadingsFromLiveSatellites ==
    query.telescope_idx \in 0 .. (NumTelescopes - 1) =>
        \A n \in DOMAIN query.readings :
            ~IsDead(query.readings[n].altitude + R_EARTH)

\* the loop of satellite i has gone through the death check of an iteration
\* that left the stored height below the death threshold
DeathDetected(i) ==
    /\ threads[i].pc \in {"loop", "exited"}
    /\ ~IsNone(satellites[i].height)
    /\ IsDead(Val(satellites[i].height))

LiveState(sat) ==
    <<sat.th_current, sat.r_current, sat.height, sat.latitude, sat.longitude>>

\* C6: once the loop of a satellite has detected death, every later step
\* leaves theta, r, height, latitude and longitude as they are, and
\* get_current keeps returning the same reading.
DeadStaysPut ==
    [][\A i \in Sats :
         DeathDetected(i) =>
            /\ DeathDetected(i)'
            /\ LiveState(satellites'[i]) = LiveState(satellites[i])
            /\ GetCurrent(satellites'[i]) = GetCurrent(satellites[i])]_vars

\* a dead satellite whose thread has left the loop, after a stop_async call
DeadStaysPutWitness ==
    \E i \in Sats :
        /\ DeathDetected(i)
        /\ threads[i].pc = "exited"
        /\ IsReading(GetCurrent(satellites[i]))
        /\ Len(stopped[i]) > 0

\* C7: after an iteration in which the de-orbit event fired, the stored
\* height is below the death threshold and the running flag is false.
DeorbitKills ==
    \A i \in Sats :
        threads[i].fire =>
            IsDead(Val(satellites[i].height)) /\ ~satellites[i]._running

\* C8: every satellite of the fleet has a positive mass.
FleetMassesPositive ==
    \A i \in Sats : satellites[i].mass > 0

\* the square of the distance, in degrees, between the telescope and the
\* reading of a direct call of read
CallDistance2 ==
    LET reading == GetCurrent(call.satellite)
        dlat == call.self.coordinate.latitude - reading.coordinate.latitude
        dlon == call.self.coordinate.longitude - reading.coordinate.longitude
    IN  dlat * dlat + dlon * dlon

CallReturnedReading ==
    /\ ~IsNone(call)
    /\ call.method = "read"
    /\ call.done
    /\ IsReading(GetCurrent(call.satellite))

\* C9 as stated: read returns the reading of get_current when the distance
\* is at most the threshold, and None when it is greater.
ReadWithinThreshold ==
    CallReturnedReading =>
        IF CallDistance2 <= READ_THRESHOLD * READ_THRESHOLD
        THEN call.returned = Some(GetCurrent(call.satellite))
        ELSE call.returned = None

\* C9 as amended: read returns the reading of get_current, unchanged, when
\* the distance is less than the threshold, and None when the distance is
\* the threshold or more.
ReadBelowThreshold ==
    CallReturnedReading =>
        IF CallDistance2 < READ_THRESHOLD * READ_THRESHOLD
        THEN call.returned = Some(GetCurrent(call.satellite))
        ELSE call.returned = None

\* read has returned for a reading exactly the threshold away
ReadBelowThresholdWitness ==
    /\ CallReturnedReading
    /\ CallDistance2 = READ_THRESHOLD * READ_THRESHOLD
    /\ call.returned = None

\* C10: the readings a request has collected are in creation order of their
\* satellites, each satellite at most once.
ReadingsInCreationOrder ==
    \A a, b \in DOMAIN query.readings :
        a < b => query.readings[a].id < query.readings[b].id

\* a response with the readings of two satellites
ReadingsInCreationOrderWitness ==
    /\ query.pc = "done"
    /\ "satellites" \in DOMAIN query.result
    /\ Len(query.result.satellites) = 2
    /\ query.result.satellites = query.readings

\* alpha / (1 + epsilon) and alpha / (1 - epsilon), the second without
\* bound when epsilon is 1
Periapsis(sat) == Div(sat.alpha * EPS_ONE, EPS_ONE + sat.epsilon)
Apoapsis(sat) ==
    IF sat.epsilon = EPS_ONE THEN Inf
    ELSE Div(sat.alpha * EPS_ONE, EPS_ONE - sat.epsilon)

StepCalled == ~IsNone(call) /\ call.method = "step"

\* C11: on a satellite with epsilon <= 1, r_current is between
\* alpha / (1 + epsilon) and alpha / (1 - epsilon) after any number of
\* calls of step.
RadiusWithinApsides ==
    (StepCalled /\ call.self.epsilon <= EPS_ONE) =>
        /\ Periapsis(call.self) <= call.self.r_current
        /\ call.self.r_current <= Apoapsis(call.self)

\* an ellipse that step has taken to its apoapsis, away from its periapsis
RadiusWithinApsidesWitness ==
    /\ StepCalled
    /\ call.calls = MaxStepCalls
    /\ call.self.epsilon > 0
    /\ call.self.epsilon < EPS_ONE
    /\ call.self.r_current = Apoapsis(call.self)
    /\ call.self.r_current > Periapsis(call.self)

\* the thread of satellite i has ended a loop iteration, and nothing has run
\* on it since
IterationEnded(i) == threads[i].pc = "loop" /\ threads[i].t > 0

\* C12: after a loop iteration in which the de-orbit event did not fire, the
\* running flag is false exactly when the radius of the satellite is below
\* R_EARTH (no stop_async call interferes under SpecQuery).
DeadIffBelowSurface ==
    \A i \in Sats :
        (IterationEnded(i) /\ ~threads[i].fire) =>
            (~satellites[i]._running <=> satellites[i].r_current < R_EARTH)

\* C13: once stop_async has requested a halt on a started satellite with
\* epsilon <= 1, the thread of the satellite eventually leaves run().
StopLeadsToExit ==
    \A i \in 1 .. NumSatellites :
        [](( /\ i \in Sats
             /\ stop.pc = "join"
             /\ stop.sat = i
             /\ satellites[i].epsilon <= EPS_ONE ) => <>(i \in Sats /\ Finished(i)))

\* the satellite as its thread leaves it after n iterations of the loop,
\* the de-orbit event apart, starting at the angle th_0
RECURSIVE AfterIterations(_, _, _)
AfterIterations(sat, th_0, n) ==
    IF n = 0
    THEN [sat EXCEPT !.th_current = th_0,
                     !.r_current = Radius(sat.alpha, sat.epsilon, th_0)]
    ELSE Step(AfterIterations(sat, th_0, n - 1), 5 * DT)

\* the height, latitude and longitude one iteration of the loop of sat can
\* have stored by its end: the projection of the position of that
\* iteration, with its height or with the height of the de-orbit event (an
\* iteration starts from one of the 2 * PI angles, so the first 2 * PI
\* iterations show every position the loop comes to)
IterationSnapshots(sat) ==
    UNION { { <<h, Degrees(Project(it).latitude), Degrees(Project(it).longitude)>> :
                h \in {Project(it).h, DeorbitHeight} } :
            it \in { AfterIterations(sat, th_0, n) :
                        th_0 \in Th0s, n \in 1 .. (2 * PI) } }

\* C14: the height, latitude and longitude of every reading a request for
\* one of the telescopes has collected are those one and the same iteration
\* of the satellite's loop had stored by its end (the altitude of a reading
\* is the height get_current read, less R_EARTH).
ReadingsOfOneIteration ==
    query.telescope_idx \in 0 .. (NumTelescopes - 1) =>
        \A n \in DOMAIN query.readings :
            LET reading == query.readings[n]
            IN  <<reading.altitude + R_EARTH, reading.coordinate.latitude,
                  reading.coordinate.longitude>>
                    \in IterationSnapshots(satellites[reading.id])

\* C15: after a loop iteration in which the de-orbit event did not fire, the
\* altitude of the reading get_current returns is the height above the
\* surface that iteration computed, |position| - R_EARTH.
AltitudeIsHeightAboveSurface ==
    \A i \in Sats :
        (IterationEnded(i) /\ ~threads[i].fire
            /\ IsReading(GetCurrent(satellites[i]))) =>
                GetCurrent(satellites[i]).altitude = Project(satellites[i]).h

\* the live state of a satellite, running flag included
LiveStateAndFlag(sat) == <<LiveState(sat), sat._running>>

DeathCheckAfterStores ==
    [][ \A i \in Sats :
          threads[i].pc = "deorbit" =>
            /\ satellites[i].height = Some(Project(satellites[i]).h)
            /\ satellites[i].latitude
                  = Some(Degrees(Project(satellites[i]).latitude))
            /\ satellites[i].longitude
                  = Some(Degrees(Project(satellites[i]).longitude))
            /\ threads'[i].pc = "loop" =>
                  /\ satellites'[i].height
                        = IF threads'[i].fire THEN Some(DeorbitHeight)
                                              ELSE satellites[i].height
                  /\ satellites'[i]._running
                        = ( /\ satellites[i]._running
                            /\ ~IsDead(Val(satellites'[i].height)) )
      ]_vars

\* an iteration whose position was below the death threshold, whose
\* de-orbit event fired, and which left the satellite running
DeathCheckAfterStoresWitness ==
    \E i \in Sats :
        /\ IterationEnded(i)
        /\ threads[i].fire
        /\ IsDead(Project(satellites[i]).h)
        /\ satellites[i].height = Some(DeorbitHeight)
        /\ satellites[i]._running

\* C18: a request for one of the telescopes never ends with an exception.
QueryNeverRaises ==
    (query.pc = "done" /\ query.telescope_idx \in 0 .. (NumTelescopes - 1))
        => "error" \notin DOMAIN query.result

====
